---- MODULE Spec2Model ----
(***************************************************************************)
(* Model of the hole list of linked-list-allocator (src/src/hole.rs).      *)
(*                                                                         *)
(* The intrusive chain `first -> hole -> hole -> ...` is the sequence      *)
(* `chain` of (addr, size) records: chain[i] is the i-th real hole         *)
(* reachable from the dummy head, its `next` is chain[i+1].  The dummy     *)
(* head `HoleList.first` is position 0; its `size` field is `dummySize`    *)
(* and the place where the HoleList itself lives is `dummyAddr`.           *)
(* Addresses and sizes are machine words (usize).  Addresses are plain     *)
(* numbers, address 0 included, as in the scenarios of the specification.  *)
(***************************************************************************)
EXTENDS Integers, Naturals, Sequences, FiniteSets, Bags, TLC

VARIABLES region, dummyAddr, dummySize, chain, allocs, last, roundTrip, covered,
          walk

vars == <<region, dummyAddr, dummySize, chain, allocs, last, roundTrip, covered,
          walk>>

(***************************************************************************)
(* The target: usize is SizeOfUsize bytes wide; arithmetic on it wraps.    *)
(***************************************************************************)
SizeOfUsize == 2

WordMod == 2 ^ (8 * SizeOfUsize)

Wrap(x) == x % WordMod

min_size == SizeOfUsize * 2

(***************************************************************************)
(* size_of::<Hole>(): a usize and a pointer-sized Option<Unique<Hole>>.    *)
(***************************************************************************)
size_of_Hole == SizeOfUsize + SizeOfUsize

(***************************************************************************)
(* Bounds of the model.                                                    *)
(***************************************************************************)
MaxRegion == 12

MaxReq == 12

MaxAlignLog == 3

Bases == {0, min_size}

StackAddrs == {min_size + MaxRegion, WordMod - min_size}

RegionSizes == min_size .. MaxRegion

Aligns == {2 ^ k : k \in 0 .. MaxAlignLog}

ReqSizes == min_size .. MaxReq

FreedAddrs == 0 .. (min_size + MaxRegion - 1)

UndersizedRegions == 0 .. (min_size - 1)

MaxSplitAddr == 9

SplitAddrs == 0 .. MaxSplitAddr

SplitSizes == 1 .. MaxRegion

WordAddrs == {0, min_size, WordMod - MaxRegion - min_size}

WordSizes == (min_size .. MaxReq) \cup ((WordMod - MaxReq) .. (WordMod - 1))

UndersizedReqs == 0 .. (min_size - 1)

(***************************************************************************)
(* Option<T>: None is the empty sequence, Some(x) the one-element one.     *)
(***************************************************************************)
None == << >>

Some(x) == << x >>

HoleInfo(a, s) == [addr |-> a, size |-> s]

RemoveAt(s, i) == SubSeq(s, 1, i - 1) \o SubSeq(s, i + 1, Len(s))

InsertAt(s, i, x) == SubSeq(s, 1, i - 1) \o << x >> \o SubSeq(s, i, Len(s))

(***************************************************************************)
(* super::align_up: the smallest multiple of align that is >= addr.        *)
(***************************************************************************)
align_up(addr, align) == Wrap(((addr + align - 1) \div align) * align)

(***************************************************************************)
(* split_hole as it would be if the allocation were placed at the hole's   *)
(* own address instead of the aligned one.                                 *)
(***************************************************************************)
split_hole_unaligned(hole, required_size, required_align) ==
  LET aligned_hole_addr == align_up(hole.addr, required_align)
      aligned_hole == HoleInfo(aligned_hole_addr,
                               Wrap(hole.size - (aligned_hole_addr - hole.addr)))
      front_padding ==
        IF aligned_hole.addr = hole.addr THEN None
        ELSE Some(HoleInfo(hole.addr, Wrap(aligned_hole.addr - hole.addr)))
      back_padding ==
        IF aligned_hole.size = required_size THEN None
        ELSE Some(HoleInfo(Wrap(aligned_hole.addr + required_size),
                           Wrap(aligned_hole.size - required_size)))
  IN  IF Wrap(aligned_hole_addr + required_size) > Wrap(hole.addr + hole.size)
        THEN None
      ELSE IF /\ aligned_hole.addr # hole.addr
              /\ aligned_hole.addr < Wrap(hole.addr + min_size)
        THEN None
      ELSE IF /\ aligned_hole.size # required_size
              /\ Wrap(aligned_hole.size - required_size) < min_size
        THEN None
      ELSE Some([info |-> HoleInfo(hole.addr, required_size),
                 front_padding |-> front_padding,
                 back_padding |-> back_padding])

(***************************************************************************)
(* split_hole as it would be without the rejection of a back padding       *)
(* smaller than min_size.                                                  *)
(***************************************************************************)
split_hole_small_back(hole, required_size, required_align) ==
  LET aligned_hole_addr == align_up(hole.addr, required_align)
      aligned_hole == HoleInfo(aligned_hole_addr,
                               Wrap(hole.size - (aligned_hole_addr - hole.addr)))
      front_padding ==
        IF aligned_hole.addr = hole.addr THEN None
        ELSE Some(HoleInfo(hole.addr, Wrap(aligned_hole.addr - hole.addr)))
      back_padding ==
        IF aligned_hole.size = required_size THEN None
        ELSE Some(HoleInfo(Wrap(aligned_hole.addr + required_size),
                           Wrap(aligned_hole.size - required_size)))
  IN  IF Wrap(aligned_hole_addr + required_size) > Wrap(hole.addr + hole.size)
        THEN None
      ELSE IF /\ aligned_hole.addr # hole.addr
              /\ aligned_hole.addr < Wrap(hole.addr + min_size)
        THEN None
      ELSE Some([info |-> HoleInfo(aligned_hole.addr, required_size),
                 front_padding |-> front_padding,
                 back_padding |-> back_padding])

(***************************************************************************)
(* split_hole: None, or Some(Allocation).                                  *)
(***************************************************************************)
split_hole(hole, required_size, required_align) ==
  LET aligned_hole_addr == align_up(hole.addr, required_align)
      aligned_hole == HoleInfo(aligned_hole_addr,
                               Wrap(hole.size - (aligned_hole_addr - hole.addr)))
      front_padding ==
        IF aligned_hole.addr = hole.addr THEN None
        ELSE Some(HoleInfo(hole.addr, Wrap(aligned_hole.addr - hole.addr)))
      back_padding ==
        IF aligned_hole.size = required_size THEN None
        ELSE Some(HoleInfo(Wrap(aligned_hole.addr + required_size),
                           Wrap(aligned_hole.size - required_size)))
  IN  IF Wrap(aligned_hole_addr + required_size) > Wrap(hole.addr + hole.size)
        THEN None
      ELSE IF /\ aligned_hole.addr # hole.addr
              /\ aligned_hole.addr < Wrap(hole.addr + min_size)
        THEN None
      ELSE IF /\ aligned_hole.size # required_size
              /\ Wrap(aligned_hole.size - required_size) < min_size
        THEN None
      ELSE Some([info |-> HoleInfo(aligned_hole.addr, required_size),
                 front_padding |-> front_padding,
                 back_padding |-> back_padding])

(***************************************************************************)
(* The list as the free functions see it: the dummy head's size and the    *)
(* chain behind it.  `panic` is set when an assertion or unwrap failed;    *)
(* the fields then hold what had been written before the abort.            *)
(***************************************************************************)
List(ds, ch, p) == [dummySize |-> ds, chain |-> ch, panic |-> p]

HoleSize(l, i) == IF i = 0 THEN l.dummySize ELSE l.chain[i].size

SetHoleSize(l, i, s) ==
  IF i = 0 THEN [l EXCEPT !.dummySize = s]
  ELSE [l EXCEPT !.chain[i].size = s]

(***************************************************************************)
(* allocate_first_fit(previous, size, align), previous = position i.       *)
(* Result: [list, alloc] with alloc = Some(Allocation) or, on panic, None. *)
(* allocate_first_fit_keeps_hole is the function as it would be without    *)
(* the update of the previous pointer that unlinks the chosen hole.        *)
(***************************************************************************)
RECURSIVE allocate_first_fit(_, _, _, _)

allocate_first_fit_keeps_hole(l, i, size, align) ==
  LET hasNext == i < Len(l.chain)
      allocation == IF hasNext THEN split_hole(l.chain[i + 1], size, align)
                    ELSE None
  IN  IF allocation # None
        THEN [list |-> l, alloc |-> allocation]
      ELSE IF hasNext
        THEN allocate_first_fit(l, i + 1, size, align)
      ELSE [list |-> [l EXCEPT !.panic = TRUE], alloc |-> None]

allocate_first_fit(l, i, size, align) ==
  LET hasNext == i < Len(l.chain)
      allocation == IF hasNext THEN split_hole(l.chain[i + 1], size, align)
                    ELSE None
  IN  IF allocation # None
        THEN [list |-> [l EXCEPT !.chain = RemoveAt(l.chain, i + 1)],
              alloc |-> allocation]
      ELSE IF hasNext
        THEN allocate_first_fit(l, i + 1, size, align)
      ELSE [list |-> [l EXCEPT !.panic = TRUE], alloc |-> None]

(***************************************************************************)
(* deallocate(hole, addr, size), hole = position i (0 is the dummy head).  *)
(* deallocate_no_delegate is the function as it would be without the arm   *)
(* that hands a block behind the next hole on to the next hole.            *)
(***************************************************************************)
RECURSIVE deallocate(_, _, _, _)

deallocate_no_delegate(l, i, addr, size) ==
  LET hsize == HoleSize(l, i)
      hole_addr == IF hsize = 0 THEN 0
                   ELSE IF i = 0 THEN dummyAddr ELSE l.chain[i].addr
      hole_end == Wrap(hole_addr + hsize)
      hasNext == i < Len(l.chain)
      next == l.chain[i + 1]
  IN  IF size < min_size THEN [l EXCEPT !.panic = TRUE]
      ELSE IF ~(hole_end <= addr) THEN [l EXCEPT !.panic = TRUE]
      ELSE IF hasNext /\ hole_end = addr /\ Wrap(addr + size) = next.addr
        THEN [SetHoleSize(l, i, Wrap(hsize + Wrap(size + next.size)))
                EXCEPT !.chain = RemoveAt(@, i + 1)]
      ELSE IF hasNext /\ hole_end = addr
        THEN SetHoleSize(l, i, Wrap(hsize + size))
      ELSE IF hasNext /\ Wrap(addr + size) = next.addr
        THEN deallocate([l EXCEPT !.chain = RemoveAt(@, i + 1)], i, addr,
                        Wrap(size + next.size))
      ELSE [l EXCEPT !.chain = InsertAt(@, i + 1, HoleInfo(addr, size))]

deallocate(l, i, addr, size) ==
  LET hsize == HoleSize(l, i)
      hole_addr == IF hsize = 0 THEN 0
                   ELSE IF i = 0 THEN dummyAddr ELSE l.chain[i].addr
      hole_end == Wrap(hole_addr + hsize)
      hasNext == i < Len(l.chain)
      next == l.chain[i + 1]
  IN  IF size < min_size THEN [l EXCEPT !.panic = TRUE]
      ELSE IF ~(hole_end <= addr) THEN [l EXCEPT !.panic = TRUE]
      ELSE IF hasNext /\ hole_end = addr /\ Wrap(addr + size) = next.addr
        THEN [SetHoleSize(l, i, Wrap(hsize + Wrap(size + next.size)))
                EXCEPT !.chain = RemoveAt(@, i + 1)]
      ELSE IF hasNext /\ hole_end = addr
        THEN SetHoleSize(l, i, Wrap(hsize + size))
      ELSE IF hasNext /\ Wrap(addr + size) = next.addr
        THEN deallocate([l EXCEPT !.chain = RemoveAt(@, i + 1)], i, addr,
                        Wrap(size + next.size))
      ELSE IF hasNext /\ next.addr <= addr
        THEN deallocate(l, i + 1, addr, size)
      ELSE [l EXCEPT !.chain = InsertAt(@, i + 1, HoleInfo(addr, size))]

(***************************************************************************)
(* The closure HoleList::allocate_first_fit maps over the search's result: *)
(* the front padding, then the back padding, is given to deallocate, and   *)
(* the allocation's address is returned.  A panic in one step leaves the   *)
(* later ones undone.                                                      *)
(***************************************************************************)
free_padding(l, padding) ==
  IF padding = None \/ l.panic THEN l
  ELSE deallocate(l, 0, padding[1].addr, padding[1].size)

allocation_addr(l, alloc) ==
  [list |-> l,
   ret |-> IF l.panic THEN None ELSE Some(alloc[1].info.addr),
   alloc |-> alloc]

map_allocation(r) ==
  IF r.alloc = None THEN [list |-> r.list, ret |-> None, alloc |-> None]
  ELSE allocation_addr(free_padding(free_padding(r.list, r.alloc[1].front_padding),
                                    r.alloc[1].back_padding),
                       r.alloc)

(***************************************************************************)
(* HoleList::allocate_first_fit: [list, ret, alloc], ret = Some(addr) or   *)
(* None (None only together with list.panic); alloc is what the search     *)
(* allocate_first_fit(&mut self.first, size, align) gave.                  *)
(* HoleList_allocate_first_fit_unchecked is the method as it would be      *)
(* without its assertion on the requested size.                            *)
(***************************************************************************)
HoleList_allocate_first_fit_unchecked(l, size, align) ==
  map_allocation(allocate_first_fit(l, 0, size, align))

HoleList_allocate_first_fit(l, size, align) ==
  IF size < min_size
    THEN [list |-> [l EXCEPT !.panic = TRUE], ret |-> None, alloc |-> None]
  ELSE map_allocation(allocate_first_fit(l, 0, size, align))

(***************************************************************************)
(* HoleList::deallocate.                                                   *)
(***************************************************************************)
HoleList_deallocate(l, ptr, size) ==
  IF size < min_size THEN [l EXCEPT !.panic = TRUE]
  ELSE deallocate(l, 0, ptr, size)

(***************************************************************************)
(* Observation of a call: what was called, what it returned, the          *)
(* Allocation the first-fit search chose (if any), and the list as it was  *)
(* when the call was made.                                                 *)
(***************************************************************************)
Call(op, addr, size, align, ret, alloc, panic, valid) ==
  [op |-> op, addr |-> addr, size |-> size, align |-> align, ret |-> ret,
   alloc |-> alloc, panic |-> panic, valid |-> valid,
   pre |-> [chain |-> chain, dummySize |-> dummySize]]

Bytes(h) == {x \in 0 .. (min_size + MaxRegion + MaxReq) :
               h.addr <= x /\ x < h.addr + h.size}

RegionBytes == Bytes(HoleInfo(region.base, region.size))

Outstanding == BagToSet(allocs)

Covers(bag) == RegionBytes \subseteq UNION {Bytes(a) : a \in BagToSet(bag)}

(***************************************************************************)
(* A call in progress, for the specification that follows the chain walks  *)
(* step by step: the function that runs (fn), the hole it is at (pos, 0 is *)
(* the dummy head), its arguments, the number of invocations of the        *)
(* recursive function made so far in this walk (steps), the number of      *)
(* holes the chain had when the walk began (holes), the Allocation the     *)
(* search chose and the paddings still to be given to deallocate.  Idle:   *)
(* no call is in progress.                                                 *)
(***************************************************************************)
Idle ==
  [fn |-> "idle", pos |-> 0, addr |-> 0, size |-> 0, align |-> 1, steps |-> 0,
   holes |-> 0, alloc |-> None, pending |-> << >>]

(***************************************************************************)
(* HoleList::new(ptr, size) and HoleList::empty().  new asserts that a     *)
(* Hole header is exactly min_size bytes before it writes the first hole.  *)
(***************************************************************************)
HoleList_new(ptr, size) ==
  IF size_of_Hole # min_size THEN List(0, << >>, TRUE)
  ELSE List(0, << HoleInfo(ptr, size) >>, FALSE)

HoleList_empty == List(0, << >>, FALSE)

Constructed(base, size, valid) ==
  /\ region = [base |-> base, size |-> size]
  /\ dummySize = HoleList_new(base, size).dummySize
  /\ chain = HoleList_new(base, size).chain
  /\ last = [op |-> "new", addr |-> base, size |-> size, align |-> 1,
             ret |-> None, alloc |-> None,
             panic |-> HoleList_new(base, size).panic, valid |-> valid,
             pre |-> [chain |-> << >>, dummySize |-> 0]]

InitNew == \E base \in Bases, size \in RegionSizes : Constructed(base, size, TRUE)

(***************************************************************************)
(* HoleList::new over a region of fewer than min_size bytes.  The list it  *)
(* gives is used like any other (last.valid stays TRUE): nothing in new    *)
(* tells the caller apart from one that kept the contract.                 *)
(***************************************************************************)
InitNewUndersized ==
  \E base \in Bases, size \in UndersizedRegions : Constructed(base, size, TRUE)

InitEmpty ==
  /\ region = [base |-> 0, size |-> 0]
  /\ dummySize = HoleList_empty.dummySize
  /\ chain = HoleList_empty.chain
  /\ last = [op |-> "empty", addr |-> 0, size |-> 0, align |-> 1,
             ret |-> None, alloc |-> None, panic |-> FALSE, valid |-> TRUE,
             pre |-> [chain |-> << >>, dummySize |-> 0]]

Init ==
  /\ InitNew \/ InitEmpty
  /\ dummyAddr \in StackAddrs
  /\ allocs = EmptyBag
  /\ roundTrip = None
  /\ covered = FALSE
  /\ walk = Idle

InitAny ==
  /\ InitNew \/ InitEmpty \/ InitNewUndersized
  /\ dummyAddr \in StackAddrs
  /\ allocs = EmptyBag
  /\ roundTrip = None
  /\ covered = FALSE
  /\ walk = Idle

(***************************************************************************)
(* The program runs until a call panics.  A call that breaks the contract  *)
(* of deallocate is followed no further: the headers it wrote may lie      *)
(* across other holes' headers.                                            *)
(***************************************************************************)
Running == ~last.panic /\ last.valid

(***************************************************************************)
(* The effect of a call of HoleList::allocate_first_fit that gave r, and   *)
(* of a call of HoleList::deallocate(addr, size) that left the list l.     *)
(***************************************************************************)
Allocated(r, size, align, valid) ==
  /\ chain' = r.list.chain
  /\ dummySize' = r.list.dummySize
  /\ allocs' = IF r.ret = None THEN allocs
               ELSE allocs (+) SetToBag({HoleInfo(r.ret[1], size)})
  /\ last' = Call("allocate", 0, size, align, r.ret, r.alloc, r.list.panic, valid)
  /\ covered' = (~r.list.panic /\ Covers(allocs'))
  /\ roundTrip' = None
  /\ UNCHANGED <<region, dummyAddr, walk>>

Deallocated(l, addr, size, valid) ==
  /\ chain' = l.chain
  /\ dummySize' = l.dummySize
  /\ allocs' = IF l.panic \/ ~valid THEN allocs
               ELSE allocs (-) SetToBag({HoleInfo(addr, size)})
  /\ last' = Call("deallocate", addr, size, 1, None, None, l.panic, valid)
  /\ roundTrip' = IF valid /\ last.op = "allocate" /\ last.ret = Some(addr)
                      /\ last.size = size
                   THEN Some(last.pre) ELSE None
  /\ UNCHANGED <<region, dummyAddr, covered, walk>>

(***************************************************************************)
(* A caller's valid call of HoleList::allocate_first_fit.                  *)
(***************************************************************************)
Allocate ==
  /\ Running
  /\ \E size \in ReqSizes, align \in Aligns :
       Allocated(HoleList_allocate_first_fit(List(dummySize, chain, FALSE),
                                             size, align),
                 size, align, TRUE)

(***************************************************************************)
(* A caller's valid call of HoleList::deallocate: an outstanding           *)
(* allocation is given back with the size it was requested with.           *)
(***************************************************************************)
Deallocate ==
  /\ Running
  /\ \E a \in Outstanding :
       Deallocated(HoleList_deallocate(List(dummySize, chain, FALSE),
                                       a.addr, a.size),
                   a.addr, a.size, TRUE)

(***************************************************************************)
(* A call of HoleList::deallocate that breaks its contract: (addr, size)   *)
(* is not an outstanding allocation.                                       *)
(***************************************************************************)
DeallocateInvalid ==
  /\ Running
  /\ \E addr \in FreedAddrs, size \in ReqSizes :
       /\ HoleInfo(addr, size) \notin Outstanding
       /\ Deallocated(HoleList_deallocate(List(dummySize, chain, FALSE),
                                          addr, size),
                      addr, size, FALSE)

Next == Allocate \/ Deallocate

Spec == Init /\ [][Next]_vars

(***************************************************************************)
(* Calls with a size below min_size.                                       *)
(***************************************************************************)
AllocateUndersized ==
  /\ Running
  /\ \E size \in UndersizedReqs, align \in Aligns :
       Allocated(HoleList_allocate_first_fit(List(dummySize, chain, FALSE),
                                             size, align),
                 size, align, FALSE)

DeallocateUndersized ==
  /\ Running
  /\ \E addr \in FreedAddrs, size \in UndersizedReqs :
       Deallocated(HoleList_deallocate(List(dummySize, chain, FALSE),
                                       addr, size),
                   addr, size, FALSE)

NextAny ==
  \/ Allocate
  \/ Deallocate
  \/ DeallocateInvalid
  \/ AllocateUndersized
  \/ DeallocateUndersized

SpecAny == InitAny /\ [][NextAny]_vars

(***************************************************************************)
(* The chain walks step by step.  One invocation of the recursive          *)
(* allocate_first_fit: the Allocation found and the list with the hole     *)
(* unlinked, or `more` when the search goes on at the next hole, or a      *)
(* panic at the end of the chain.                                          *)
(***************************************************************************)
allocate_first_fit_step(l, i, size, align) ==
  IF i < Len(l.chain) /\ split_hole(l.chain[i + 1], size, align) # None
    THEN [list |-> [l EXCEPT !.chain = RemoveAt(l.chain, i + 1)],
          alloc |-> split_hole(l.chain[i + 1], size, align), more |-> FALSE]
  ELSE IF i < Len(l.chain)
    THEN [list |-> l, alloc |-> None, more |-> TRUE]
  ELSE [list |-> [l EXCEPT !.panic = TRUE], alloc |-> None, more |-> FALSE]

(***************************************************************************)
(* One invocation of the recursive deallocate: the list it leaves and,     *)
(* when it calls itself (`more`), the hole and the size it goes on with.   *)
(* deallocate_step_stays is the invocation as it would be if the delegate  *)
(* arm handed the block to the current hole again instead of the next one. *)
(***************************************************************************)
Walked(l, more, pos, size) == [list |-> l, more |-> more, pos |-> pos, size |-> size]

deallocate_step_stays(l, i, addr, size) ==
  LET hsize == HoleSize(l, i)
      hole_addr == IF hsize = 0 THEN 0
                   ELSE IF i = 0 THEN dummyAddr ELSE l.chain[i].addr
      hole_end == Wrap(hole_addr + hsize)
      hasNext == i < Len(l.chain)
      next == l.chain[i + 1]
  IN  IF size < min_size THEN Walked([l EXCEPT !.panic = TRUE], FALSE, i, size)
      ELSE IF ~(hole_end <= addr)
        THEN Walked([l EXCEPT !.panic = TRUE], FALSE, i, size)
      ELSE IF hasNext /\ hole_end = addr /\ Wrap(addr + size) = next.addr
        THEN Walked([SetHoleSize(l, i, Wrap(hsize + Wrap(size + next.size)))
                       EXCEPT !.chain = RemoveAt(@, i + 1)], FALSE, i, size)
      ELSE IF hasNext /\ hole_end = addr
        THEN Walked(SetHoleSize(l, i, Wrap(hsize + size)), FALSE, i, size)
      ELSE IF hasNext /\ Wrap(addr + size) = next.addr
        THEN Walked([l EXCEPT !.chain = RemoveAt(@, i + 1)], TRUE, i,
                    Wrap(size + next.size))
      ELSE IF hasNext /\ next.addr <= addr
        THEN Walked(l, TRUE, i, size)
      ELSE Walked([l EXCEPT !.chain = InsertAt(@, i + 1, HoleInfo(addr, size))],
                  FALSE, i, size)

deallocate_step(l, i, addr, size) ==
  LET hsize == HoleSize(l, i)
      hole_addr == IF hsize = 0 THEN 0
                   ELSE IF i = 0 THEN dummyAddr ELSE l.chain[i].addr
      hole_end == Wrap(hole_addr + hsize)
      hasNext == i < Len(l.chain)
      next == l.chain[i + 1]
  IN  IF size < min_size THEN Walked([l EXCEPT !.panic = TRUE], FALSE, i, size)
      ELSE IF ~(hole_end <= addr)
        THEN Walked([l EXCEPT !.panic = TRUE], FALSE, i, size)
      ELSE IF hasNext /\ hole_end = addr /\ Wrap(addr + size) = next.addr
        THEN Walked([SetHoleSize(l, i, Wrap(hsize + Wrap(size + next.size)))
                       EXCEPT !.chain = RemoveAt(@, i + 1)], FALSE, i, size)
      ELSE IF hasNext /\ hole_end = addr
        THEN Walked(SetHoleSize(l, i, Wrap(hsize + size)), FALSE, i, size)
      ELSE IF hasNext /\ Wrap(addr + size) = next.addr
        THEN Walked([l EXCEPT !.chain = RemoveAt(@, i + 1)], TRUE, i,
                    Wrap(size + next.size))
      ELSE IF hasNext /\ next.addr <= addr
        THEN Walked(l, TRUE, i + 1, size)
      ELSE Walked([l EXCEPT !.chain = InsertAt(@, i + 1, HoleInfo(addr, size))],
                  FALSE, i, size)

(***************************************************************************)
(* The paddings of an Allocation in the order the closure of               *)
(* HoleList::allocate_first_fit gives them to deallocate.                  *)
(***************************************************************************)
paddings(allocation) ==
  (IF allocation.front_padding = None THEN << >> ELSE allocation.front_padding)
    \o (IF allocation.back_padding = None THEN << >> ELSE allocation.back_padding)

Walking == walk.fn # "idle" /\ ~last.panic

(***************************************************************************)
(* A caller's valid call of HoleList::allocate_first_fit begins: the size  *)
(* is checked and the search starts at the dummy head.                     *)
(***************************************************************************)
CallAllocate ==
  /\ Running
  /\ walk.fn = "idle"
  /\ \E size \in ReqSizes, align \in Aligns :
       /\ walk' = [Idle EXCEPT !.fn = "allocate_first_fit", !.size = size,
                               !.align = align, !.holes = Len(chain)]
       /\ last' = Call("allocate", 0, size, align, None, None, FALSE, TRUE)
  /\ UNCHANGED <<region, dummyAddr, dummySize, chain, allocs, roundTrip, covered>>

(***************************************************************************)
(* A caller's valid call of HoleList::deallocate begins: an outstanding    *)
(* allocation is given back, and deallocate starts at the dummy head.      *)
(***************************************************************************)
CallDeallocate ==
  /\ Running
  /\ walk.fn = "idle"
  /\ \E a \in Outstanding :
       /\ walk' = [Idle EXCEPT !.fn = "deallocate", !.addr = a.addr,
                               !.size = a.size, !.holes = Len(chain)]
       /\ last' = Call("deallocate", a.addr, a.size, 1, None, None, FALSE, TRUE)
       /\ allocs' = allocs (-) SetToBag({a})
  /\ UNCHANGED <<region, dummyAddr, dummySize, chain, roundTrip, covered>>

(***************************************************************************)
(* One invocation of the search.  When it has found its Allocation the     *)
(* closure of HoleList::allocate_first_fit takes over ("map").             *)
(***************************************************************************)
Searched(r) ==
  /\ chain' = r.list.chain
  /\ last' = [last EXCEPT !.panic = r.list.panic, !.alloc = r.alloc]
  /\ walk' = IF r.more THEN [walk EXCEPT !.pos = @ + 1, !.steps = @ + 1]
             ELSE IF r.alloc = None THEN [walk EXCEPT !.steps = @ + 1]
             ELSE [walk EXCEPT !.fn = "map", !.steps = @ + 1, !.alloc = r.alloc,
                               !.pending = paddings(r.alloc[1])]
  /\ UNCHANGED <<region, dummyAddr, dummySize, allocs, roundTrip, covered>>

SearchStep ==
  /\ Walking
  /\ walk.fn = "allocate_first_fit"
  /\ Searched(allocate_first_fit_step(List(dummySize, chain, FALSE), walk.pos,
                                      walk.size, walk.align))

(***************************************************************************)
(* The closure: the next padding is given to deallocate, which starts at   *)
(* the dummy head; with no padding left the address is returned.           *)
(***************************************************************************)
MapStep ==
  /\ Walking
  /\ walk.fn = "map"
  /\ IF walk.pending # << >>
       THEN /\ walk' = [walk EXCEPT !.fn = "deallocate", !.pos = 0,
                                    !.addr = Head(walk.pending).addr,
                                    !.size = Head(walk.pending).size,
                                    !.steps = 0, !.holes = Len(chain),
                                    !.pending = Tail(walk.pending)]
            /\ UNCHANGED <<last, allocs>>
     ELSE /\ walk' = [walk EXCEPT !.fn = "idle"]
          /\ last' = [last EXCEPT !.ret = Some(walk.alloc[1].info.addr)]
          /\ allocs' = allocs (+) SetToBag({HoleInfo(walk.alloc[1].info.addr,
                                                     last.size)})
  /\ UNCHANGED <<region, dummyAddr, dummySize, chain, roundTrip, covered>>

(***************************************************************************)
(* One invocation of deallocate.  When it returns, the closure goes on if  *)
(* the block was a padding, else the caller's call has returned.           *)
(***************************************************************************)
Freed(r) ==
  /\ chain' = r.list.chain
  /\ dummySize' = r.list.dummySize
  /\ last' = [last EXCEPT !.panic = r.list.panic]
  /\ walk' = IF r.more
               THEN [walk EXCEPT !.pos = r.pos, !.size = r.size, !.steps = @ + 1]
             ELSE IF r.list.panic THEN [walk EXCEPT !.steps = @ + 1]
             ELSE [walk EXCEPT !.steps = @ + 1,
                               !.fn = IF walk.alloc = None THEN "idle" ELSE "map"]
  /\ UNCHANGED <<region, dummyAddr, allocs, roundTrip, covered>>

DeallocateStep ==
  /\ Walking
  /\ walk.fn = "deallocate"
  /\ Freed(deallocate_step(List(dummySize, chain, FALSE), walk.pos, walk.addr,
                           walk.size))

NextSteps == CallAllocate \/ CallDeallocate \/ SearchStep \/ MapStep \/ DeallocateStep

(***************************************************************************)
(* A call that has begun goes on running: the walks are plain sequential   *)
(* code.                                                                   *)
(***************************************************************************)
SpecSteps ==
  /\ Init
  /\ [][NextSteps]_vars
  /\ WF_vars(SearchStep) /\ WF_vars(MapStep) /\ WF_vars(DeallocateStep)

(***************************************************************************)
(* split_hole on its own: a hole and a request are drawn, and the one step *)
(* applies split_hole to them.  SpecSplit draws small holes and requests,  *)
(* SpecSplitWord requests over the whole range of a machine word.          *)
(***************************************************************************)
Request(hole, size, align) ==
  /\ region = [base |-> hole.addr, size |-> hole.size]
  /\ chain = << hole >>
  /\ dummySize = 0
  /\ dummyAddr = WordMod - min_size
  /\ allocs = EmptyBag
  /\ roundTrip = None
  /\ covered = FALSE
  /\ walk = Idle
  /\ last = [op |-> "request", addr |-> 0, size |-> size, align |-> align,
             ret |-> None, alloc |-> None, panic |-> FALSE, valid |-> TRUE,
             pre |-> [chain |-> << hole >>, dummySize |-> 0]]

InitSplit ==
  \E addr \in SplitAddrs, hsize \in SplitSizes, size \in ReqSizes, align \in Aligns :
    Request(HoleInfo(addr, hsize), size, align)

InitSplitWord ==
  \E addr \in WordAddrs, hsize \in RegionSizes, size \in WordSizes, align \in Aligns :
    Request(HoleInfo(addr, hsize), size, align)

SplitHole ==
  /\ last.op = "request"
  /\ last' = [last EXCEPT !.op = "split_hole",
                          !.alloc = split_hole(chain[1], last.size, last.align)]
  /\ UNCHANGED <<region, dummyAddr, dummySize, chain, allocs, roundTrip, covered,
                 walk>>

SpecSplit == InitSplit /\ [][SplitHole]_vars

SpecSplitWord == InitSplitWord /\ [][SplitHole]_vars

(***************************************************************************)
(* Vocabulary of the properties.                                           *)
(***************************************************************************)
Returned(op) == last.op = op /\ ~last.panic

End(h) == h.addr + h.size

Touching(ch) == \E i \in 1 .. Len(ch) - 1 : End(ch[i]) = ch[i + 1].addr

Fits(ch, size, align) ==
  \E i \in 1 .. Len(ch) : split_hole(ch[i], size, align) # None

WholeRegion == << HoleInfo(region.base, region.size) >>

(***************************************************************************)
(* C1 - No-adjacency: whenever a deallocate call has returned, no hole of  *)
(* the chain ends exactly where the next hole of the chain starts.         *)
(***************************************************************************)
C1_NoAdjacency == Returned("deallocate") => ~Touching(chain)

(***************************************************************************)
(* C2 - No-fit is a normal return value: when no hole of the chain passes  *)
(* the split test for the request, allocate_first_fit returns None to the  *)
(* caller and does not abort.                                              *)
(***************************************************************************)
C2_NoFitReturnsNone ==
  (last.op = "allocate" /\ ~Fits(last.pre.chain, last.size, last.align))
    => (~last.panic /\ last.ret = None)

(***************************************************************************)
(* C3 - Coalescing is order-independent: once the whole region has been    *)
(* handed out in fragments and all of them have been given back, in any    *)
(* order, the chain is exactly one hole spanning the region.               *)
(***************************************************************************)
C3_CoalesceAnyOrder ==
  (covered /\ Returned("deallocate") /\ allocs = EmptyBag)
    => chain = WholeRegion

(***************************************************************************)
(* C4 - Round trip: giving back the block that allocate_first_fit has just *)
(* returned restores the chain to the shape it had before the allocation.  *)
(***************************************************************************)
C4_RoundTrip ==
  (roundTrip # None /\ Returned("deallocate"))
    => chain = roundTrip[1].chain

(***************************************************************************)
(* C5 - No double allocation: every outstanding allocation lies inside the *)
(* managed region, is disjoint from every other outstanding allocation and *)
(* is disjoint from every hole of the chain.                               *)
(***************************************************************************)
C5_NoDoubleAllocation ==
  \A a \in Outstanding :
    /\ CopiesIn(a, allocs) = 1
    /\ Bytes(a) \subseteq RegionBytes
    /\ \A b \in Outstanding \ {a} : Bytes(a) \cap Bytes(b) = {}
    /\ \A i \in 1 .. Len(chain) : Bytes(a) \cap Bytes(chain[i]) = {}

C5_Witness ==
  /\ Returned("allocate")
  /\ last.ret # None
  /\ Cardinality(Outstanding) >= 2
  /\ Len(chain) >= 1

(***************************************************************************)
(* C6 - Conservation of free bytes: the sizes of the holes of the chain    *)
(* plus the sizes of the outstanding allocations add up to the size of the *)
(* region; an allocate of s lowers the free bytes by s, a deallocate of s  *)
(* raises them by s.                                                       *)
(***************************************************************************)
RECURSIVE FreeBytes(_)
FreeBytes(ch) == IF ch = << >> THEN 0 ELSE Head(ch).size + FreeBytes(Tail(ch))

RECURSIVE SumSizes(_)
SumSizes(S) ==
  IF S = {} THEN 0
  ELSE LET a == CHOOSE x \in S : TRUE
       IN  a.size * CopiesIn(a, allocs) + SumSizes(S \ {a})

C6_Conservation ==
  ~last.panic =>
    /\ FreeBytes(chain) + SumSizes(Outstanding) = region.size
    /\ (last.op = "allocate" /\ last.ret # None)
         => FreeBytes(chain) = FreeBytes(last.pre.chain) - last.size
    /\ last.op = "deallocate"
         => FreeBytes(chain) = FreeBytes(last.pre.chain) + last.size

(***************************************************************************)
(* C7 - Sortedness: after construction and after every call the chain is   *)
(* strictly ascending by address.                                          *)
(***************************************************************************)
C7_Sorted ==
  \A i \in 1 .. Len(chain) - 1 : chain[i].addr < chain[i + 1].addr

C7_Witness ==
  /\ Returned("deallocate")
  /\ Len(chain) >= 2
  /\ \E i \in 2 .. Len(chain) : chain[i] = HoleInfo(last.addr, last.size)

(***************************************************************************)
(* C8 - Alignment: an address returned by allocate_first_fit is a multiple *)
(* of the requested alignment.                                             *)
(***************************************************************************)
C8_Aligned ==
  (Returned("allocate") /\ last.ret # None) => last.ret[1] % last.align = 0

C8_Witness ==
  /\ Returned("allocate")
  /\ last.ret # None
  /\ last.align > 1
  /\ \A i \in 1 .. Len(last.pre.chain) : last.pre.chain[i].addr # last.ret[1]

(***************************************************************************)
(* C9 - Minimum hole size: over a region of at least min_size bytes every  *)
(* hole of the chain has at least min_size bytes; allocate leaves no       *)
(* smaller front or back fragment.                                         *)
(***************************************************************************)
Fragments(allocation) ==
  {p[1] : p \in {allocation.front_padding, allocation.back_padding} \ {None}}

C9_MinHoleSize ==
  region.size >= min_size =>
    /\ \A i \in 1 .. Len(chain) : chain[i].size >= min_size
    /\ (last.op = "allocate" /\ last.alloc # None)
         => \A f \in Fragments(last.alloc[1]) : f.size >= min_size

C9_Witness ==
  /\ Returned("allocate")
  /\ last.ret # None
  /\ Cardinality(Fragments(last.alloc[1])) = 2
  /\ \A f \in Fragments(last.alloc[1]) : \E i \in 1 .. Len(chain) : chain[i] = f

(***************************************************************************)
(* C10 - Freeing free memory is fatal: a deallocate call whose region      *)
(* overlaps a hole of the chain ends in a panic; it is never accepted.     *)
(***************************************************************************)
FreesFreeMemory ==
  /\ last.op = "deallocate"
  /\ \E i \in 1 .. Len(last.pre.chain) :
       Bytes(HoleInfo(last.addr, last.size)) \cap Bytes(last.pre.chain[i]) # {}

C10_DoubleFreeFatal == FreesFreeMemory => last.panic

(***************************************************************************)
(* C11 - Construction precondition is enforced: HoleList::new over a       *)
(* region of fewer than min_size bytes panics; it never yields a list      *)
(* whose chain holds a hole smaller than min_size.                         *)
(***************************************************************************)
C11_ConstructionEnforced ==
  (last.op = "new" /\ last.size < min_size)
    => /\ last.panic
       /\ \A i \in 1 .. Len(chain) : chain[i].size >= min_size

(***************************************************************************)
(* C12 - Undersized requests are fatal and change nothing: a call of       *)
(* allocate_first_fit or deallocate with size < min_size panics and leaves *)
(* the dummy head and every hole of the chain as they were.                *)
(***************************************************************************)
UndersizedCall ==
  /\ last.op \in {"allocate", "deallocate"}
  /\ last.size < min_size

C12_UndersizedFatal ==
  UndersizedCall =>
    /\ last.panic
    /\ chain = last.pre.chain
    /\ dummySize = last.pre.dummySize
    /\ last.ret = None

C12_Witness ==
  /\ UndersizedCall
  /\ last.op = "allocate"
  /\ last.panic
  /\ \E i \in 1 .. Len(last.pre.chain) :
       split_hole(last.pre.chain[i], last.size, last.align) # None

(***************************************************************************)
(* C13 - Extend-forward: a block freed directly behind a real hole         *)
(* `current` and not reaching up to current's successor (or current is the *)
(* last hole) grows current by the freed size; no hole is added and every  *)
(* other hole stays as it was.                                             *)
(***************************************************************************)
ExtendsForward(ch, i, addr, size) ==
  /\ End(ch[i]) = addr
  /\ (i = Len(ch) \/ addr + size # ch[i + 1].addr)

C13_ExtendForward ==
  Returned("deallocate") =>
    \A i \in 1 .. Len(last.pre.chain) :
      ExtendsForward(last.pre.chain, i, last.addr, last.size)
        => chain = [last.pre.chain EXCEPT ![i].size = @ + last.size]

(***************************************************************************)
(* C14 - Extend-backward: a block freed directly before hole `next` and    *)
(* not directly behind next's predecessor replaces next by one hole that   *)
(* starts at the freed address and has the freed size plus next's size;    *)
(* every other hole stays as it was.                                       *)
(***************************************************************************)
ExtendsBackward(ch, i, addr, size) ==
  /\ addr + size = ch[i].addr
  /\ (i = 1 \/ End(ch[i - 1]) # addr)

C14_ExtendBackward ==
  Returned("deallocate") =>
    \A i \in 1 .. Len(last.pre.chain) :
      ExtendsBackward(last.pre.chain, i, last.addr, last.size)
        => chain = [last.pre.chain EXCEPT
                      ![i] = HoleInfo(last.addr, last.size + last.pre.chain[i].size)]

(***************************************************************************)
(* C15 - The split/fit decision is the specification's: with aligned the   *)
(* smallest multiple of align >= addr, split_hole gives no fit iff         *)
(* aligned + size is beyond the hole's end, or the front padding is        *)
(* nonzero and < min_size, or the back padding is nonzero and < min_size;  *)
(* otherwise it gives the allocation (aligned, size), the front padding    *)
(* iff it is nonzero and the back padding iff it is nonzero.               *)
(***************************************************************************)
AlignedUp(addr, align) == CHOOSE m \in addr .. (addr + align - 1) : m % align = 0

Padding(addr, size) == IF size = 0 THEN None ELSE Some(HoleInfo(addr, size))

SpecifiedSplit(hole, size, align) ==
  LET aligned == AlignedUp(hole.addr, align)
      front == aligned - hole.addr
      back == End(hole) - (aligned + size)
  IN  IF \/ aligned + size > End(hole)
         \/ (front # 0 /\ front < min_size)
         \/ (back # 0 /\ back < min_size)
        THEN None
      ELSE Some([info |-> HoleInfo(aligned, size),
                 front_padding |-> Padding(hole.addr, front),
                 back_padding |-> Padding(aligned + size, back)])

C15_SplitDecision ==
  last.op = "split_hole"
    => last.alloc = SpecifiedSplit(chain[1], last.size, last.align)

C15_Witness ==
  /\ last.op = "split_hole"
  /\ last.alloc # None
  /\ Cardinality(Fragments(last.alloc[1])) = 2
  /\ End(last.alloc[1].back_padding[1]) = End(chain[1])

(***************************************************************************)
(* C19 - The too-small test is sound over the whole word range: whenever   *)
(* split_hole reports a fit, the true (unbounded) aligned address plus the *)
(* size is within the hole's end, the granted region is no longer than the *)
(* hole, and every padding fragment lies inside the hole.                  *)
(***************************************************************************)
Inside(h, hole) == hole.addr <= h.addr /\ h.addr + h.size <= End(hole)

C19_TooSmallSound ==
  (last.op = "split_hole" /\ last.alloc # None)
    => /\ AlignedUp(chain[1].addr, last.align) + last.size <= End(chain[1])
       /\ last.alloc[1].info.size <= chain[1].size
       /\ \A h \in Fragments(last.alloc[1]) : Inside(h, chain[1])

(***************************************************************************)
(* C16 - First-fit selection and its frame: a successful                   *)
(* allocate_first_fit returns the allocation that split_hole gives for the *)
(* lowest hole of the chain that passes the split test; the holes before   *)
(* it and the holes behind it are in the chain afterwards, unchanged, and  *)
(* the selected hole is replaced by its padding fragments.                 *)
(***************************************************************************)
FirstFit(ch, size, align) ==
  CHOOSE k \in 1 .. Len(ch) :
    /\ split_hole(ch[k], size, align) # None
    /\ \A j \in 1 .. (k - 1) : split_hole(ch[j], size, align) = None

PaddingSeq(alloc) ==
  (IF alloc.front_padding = None THEN << >> ELSE alloc.front_padding)
    \o (IF alloc.back_padding = None THEN << >> ELSE alloc.back_padding)

Carved(ch, k, alloc) ==
  SubSeq(ch, 1, k - 1) \o PaddingSeq(alloc) \o SubSeq(ch, k + 1, Len(ch))

C16_FirstFitFrame ==
  (Returned("allocate") /\ last.ret # None)
    => /\ Fits(last.pre.chain, last.size, last.align)
       /\ last.alloc = split_hole(last.pre.chain[FirstFit(last.pre.chain, last.size, last.align)],
                                  last.size, last.align)
       /\ last.ret = Some(last.alloc[1].info.addr)
       /\ dummySize = last.pre.dummySize
       /\ chain = Carved(last.pre.chain,
                         FirstFit(last.pre.chain, last.size, last.align),
                         last.alloc[1])

(***************************************************************************)
(* C17 - The dummy head stays a sentinel: after any sequence of valid      *)
(* calls its size is 0, and the holes of the chain hold every byte of the  *)
(* region that is not allocated.                                           *)
(***************************************************************************)
C17_DummySentinel ==
  Running => /\ dummySize = 0
             /\ FreeBytes(chain) = region.size - SumSizes(Outstanding)

(***************************************************************************)
(* C18 - Termination: every chain walk of allocate_first_fit and of        *)
(* deallocate (the recursive extend-backward and delegate steps included)  *)
(* makes at most one invocation per hole the chain had when the walk       *)
(* began, plus the first one, and every call that has begun returns or     *)
(* aborts.                                                                 *)
(***************************************************************************)
StepsBounded == walk.steps <= walk.holes + 1

C18_Termination == [](StepsBounded) /\ (Walking ~> ~Walking)

C18_Witness ==
  /\ walk.fn = "idle"
  /\ last.op = "deallocate"
  /\ ~last.panic
  /\ walk.holes >= 2
  /\ walk.steps = walk.holes + 1

(***************************************************************************)
(* The walks step by step leave what the calls as a whole leave.           *)
(***************************************************************************)
Finished(op) == last.op = op /\ (walk.fn = "idle" \/ last.panic)

WholeAllocate ==
  HoleList_allocate_first_fit(List(last.pre.dummySize, last.pre.chain, FALSE),
                              last.size, last.align)

WholeDeallocate ==
  HoleList_deallocate(List(last.pre.dummySize, last.pre.chain, FALSE),
                      last.addr, last.size)

StepsAgree ==
  /\ Finished("allocate")
       => /\ List(dummySize, chain, last.panic) = WholeAllocate.list
          /\ last.ret = WholeAllocate.ret
          /\ last.alloc = WholeAllocate.alloc
  /\ Finished("deallocate")
       => List(dummySize, chain, last.panic) = WholeDeallocate

====
